---- MODULE Spec2Model ----
(***************************************************************************)
(* A model of the GEM2020 tutorial's solar-wind preconditioning programs.  *)
(*                                                                         *)
(*   precond2.py : load_omni, calc_clock, get_precond (specification Spec) *)
(*   precond1.py : the iStart/iStop index scan and the slice means         *)
(*                 (specification SpecScan)                                *)
(*                                                                         *)
(* Timestamps are whole hours counted from 2000-01-01 00:00.  File tokens  *)
(* are records [ok, v]: ok says whether the text parses as a number and v  *)
(* is the number it denotes.  A mean is the pair [s, n] of the sum and the *)
(* count of the averaged values; n = 0 is numpy's NaN (mean of nothing).   *)
(***************************************************************************)
EXTENDS Integers, Sequences, FiniteSets, TLC

VARIABLES
    lines,      \* precond2: the file's lines, each a sequence of tokens
    epoch,      \* precond2: get_precond's epoch argument
    span,       \* precond2: get_precond's span argument (hours)
    pc,         \* precond2: position in get_precond
    i,          \* precond2: number of lines load_omni has processed
    data,       \* precond2: the dictionary of value arrays
    dtime,      \* precond2: data['time']
    means,      \* precond2: the dictionary get_precond returns
    outcome,    \* precond2: "none", "ok" (returned) or the exception raised
    time1,      \* precond1: the time array (hours)
    colB,       \* precond1: the column data[:,3]
    epoch1,     \* precond1: epoch (hours)
    k,          \* precond1: index of the next record the scan examines
    iStart,     \* precond1
    iStop,      \* precond1
    pc1,        \* precond1: position in the script
    mean1,      \* precond1: data[iStart:iStop,3].mean()
    outcome1    \* precond1: "none", "ok" (the means were printed)

vars == <<lines, epoch, span, pc, i, data, dtime, means, outcome,
          time1, colB, epoch1, k, iStart, iStop, pc1, mean1, outcome1>>

vars2 == <<lines, epoch, span, pc, i, data, dtime, means, outcome>>
vars1 == <<time1, colB, epoch1, k, iStart, iStop, pc1, mean1, outcome1>>

(***************************************************************************)
(* Bounds of the model.                                                    *)
(***************************************************************************)
MaxRec == 3
MaxRec1 == 4

(***************************************************************************)
(* Generic helpers.                                                        *)
(***************************************************************************)
Max(a, b) == IF a >= b THEN a ELSE b
Min(a, b) == IF a <= b THEN a ELSE b

RECURSIVE SumOver(_, _)
SumOver(f, S) ==
    IF S = {} THEN 0
    ELSE LET x == CHOOSE y \in S : TRUE IN f[x] + SumOver(f, S \ {x})

SeqsUpTo(S, n) == UNION {[1..m -> S] : m \in 0..n}

NaN == [s |-> 0, n |-> 0]

\* numpy's mean of the elements of arr at the positions in S
MeanOver(arr, S) == IF S = {} THEN NaN ELSE [s |-> SumOver(arr, S), n |-> Cardinality(S)]

\* the mean m is the exact arithmetic mean of arr over the non-empty set S
IsMeanOf(m, arr, S) == m.n > 0 /\ m.s * Cardinality(S) = SumOver(arr, S) * m.n

(***************************************************************************)
(* Dates: datetime(year, 1, 1) + timedelta(days, hours), in hours.         *)
(***************************************************************************)
DayHours == 24

IsLeap(y) == (y % 4 = 0 /\ y % 100 # 0) \/ y % 400 = 0

RECURSIVE DaysBefore(_)
DaysBefore(y) ==
    IF y <= 2000 THEN 0
    ELSE DaysBefore(y - 1) + (IF IsLeap(y - 1) THEN 366 ELSE 365)

Stamp(year, doy, hour) == DayHours * (DaysBefore(year) + doy) + hour

(***************************************************************************)
(* precond2.py: the input file.                                            *)
(***************************************************************************)
Num(x) == [ok |-> TRUE, v |-> x]
Junk == [ok |-> FALSE, v |-> 0]

\* an 11-column OMNIWeb record: year, doy, hour, B, Bx, By, Bz, density,
\* speed, pressure, Dst
Rec(year, doy, hour, b, bx, by, bz) ==
    <<Num(year), Num(doy), Num(hour), Num(b), Num(bx), Num(by), Num(bz),
      Num(12), Num(610), Num(9), Num(-57)>>

GoodLines ==
    { Rec(2000, 195, 12, 1, 1, 0, 1),   Rec(2000, 195, 12, 5, 0, 1, 1),
      Rec(2000, 195, 13, 2, 1, 1, 0),   Rec(2000, 195, 13, 6, -1, -1, -1),
      Rec(2000, 196, 13, 3, -1, 0, -1), Rec(2000, 196, 13, 7, 0, 1, -1),
      Rec(2000, 196, 14, 4, 0, -1, 0),  Rec(2001, 0, 0, 8, 1, -1, 1) }

BadLines ==
    { SubSeq(Rec(2000, 196, 13, 3, -1, 0, -1), 1, 10),            \* 10 tokens
      Rec(2000, 196, 13, 3, -1, 0, -1) \o <<Num(0)>>,             \* 12 tokens
      SubSeq(Rec(2000, 196, 13, 3, -1, 0, -1), 1, 9),             \* 9 tokens
      <<Num(2000), Num(196)>>,                                    \* 2 tokens
      [Rec(2000, 196, 13, 3, -1, 0, -1) EXCEPT ![6] = Junk],      \* bad By
      [Rec(2000, 196, 13, 3, -1, 0, -1) EXCEPT ![11] = Junk] }    \* bad Dst

LineSet == GoodLines \cup BadLines

EpochSet == { Stamp(2000, 196, 13), Stamp(2000, 195, 11), Stamp(2000, 198, 0) }
SpanSet == { 24, 1 }

NCols == 11
WellFormed(l) == Len(l) = NCols /\ \A p \in 1..NCols : l[p].ok

\* the timestamp the file's line l denotes
StampOf(l) == Stamp(l[1].v, l[2].v, l[3].v)

TimeOrdered(ls) ==
    \A a, b \in 1..Len(ls) : a <= b => StampOf(ls[a]) <= StampOf(ls[b])

(***************************************************************************)
(* precond2.py: load_omni.                                                 *)
(***************************************************************************)
varnames == <<"b", "bx", "by", "bz", "dens", "v", "pdyn", "dst">>
VarSet == {varnames[j] : j \in 1..Len(varnames)}

\* 1-based position in parts of the token stored under varnames[j], j in
\* 1..8: the code reads parts[j+2] with both j and the index counted from 0
VarCol(j) == j + 2

\* 1-based positions of parts that one pass of the loop body reads
ReadCols == {1, 2, 3} \cup {VarCol(j) : j \in 1..Len(varnames)}

\* the exception the loop body raises on line l ("none" if it completes):
\* the first position read that is missing gives IndexError, the first one
\* that is not a number gives ValueError
LineExc(l) ==
    LET bad == {p \in ReadCols : p > Len(l) \/ ~l[p].ok} IN
    IF bad = {} THEN "none"
    ELSE LET p == CHOOSE q \in bad : \A r \in bad : q <= r IN
         IF p > Len(l) THEN "IndexError" ELSE "ValueError"

\* data['time'] is first np.zeros(nRec, dtype=object); the loop body then
\* rebinds the key to a single datetime
TimeZeros(n) == [arr |-> TRUE, seq |-> [x \in 1..n |-> 0], val |-> 0]
TimeScalar(t) == [arr |-> FALSE, seq |-> << >>, val |-> t]

LineTime(l) == TimeScalar(StampOf(l))

Init2 ==
    /\ lines \in SeqsUpTo(LineSet, MaxRec)
    /\ epoch \in EpochSet
    /\ span \in SpanSet
    /\ pc = "load"
    /\ i = 0
    /\ data = [name \in VarSet |-> [x \in 1..Len(lines) |-> 0]]
    /\ dtime = TimeZeros(Len(lines))
    /\ means = [name \in {} |-> NaN]
    /\ outcome = "none"

Idle2 ==
    /\ lines = << >> /\ epoch = 0 /\ span = 0 /\ pc = "idle" /\ i = 0
    /\ data = [name \in {} |-> << >>] /\ dtime = TimeZeros(0)
    /\ means = [name \in {} |-> NaN] /\ outcome = "none"

Idle1 ==
    /\ time1 = << >> /\ colB = << >> /\ epoch1 = 0 /\ k = 0
    /\ iStart = -1 /\ iStop = -1 /\ pc1 = "idle" /\ mean1 = NaN
    /\ outcome1 = "none"

\* one pass of the loop "for i, l in enumerate(lines)"
LoadLine ==
    /\ pc = "load" /\ i < Len(lines)
    /\ LET l == lines[i + 1] IN
       IF LineExc(l) = "none"
       THEN /\ dtime' = LineTime(l)
            /\ data' = [name \in VarSet |->
                          LET j == CHOOSE q \in 1..Len(varnames) : varnames[q] = name
                          IN [data[name] EXCEPT ![i + 1] = l[VarCol(j)].v]]
            /\ i' = i + 1
            /\ UNCHANGED <<pc, outcome>>
       ELSE /\ pc' = "error"
            /\ outcome' = LineExc(l)
            /\ UNCHANGED <<i, data, dtime>>
    /\ UNCHANGED <<lines, epoch, span, means>>
    /\ UNCHANGED vars1

\* "return data": get_precond goes on to calc_clock
LoadReturn ==
    /\ pc = "load" /\ i = Len(lines)
    /\ pc' = "clock"
    /\ UNCHANGED <<lines, epoch, span, i, data, dtime, means, outcome>>
    /\ UNCHANGED vars1

(***************************************************************************)
(* precond2.py: calc_clock.                                                *)
(***************************************************************************)
\* (180/pi) * arctan2(y, x), on the axes and the diagonals: the only
\* arguments the field values of the model's files produce
Atan2Deg(y, x) ==
    CASE y = 0 /\ x >= 0   -> 0
      [] y = 0 /\ x < 0    -> 180
      [] x = 0 /\ y > 0    -> 90
      [] x = 0 /\ y < 0    -> -90
      [] y = x /\ x > 0    -> 45
      [] y = -x /\ x < 0   -> 135
      [] y = x /\ x < 0    -> -135
      [] y = -x /\ x > 0   -> -45

\* data['clock'] = (180.0/np.pi)*np.arctan2(data['bz'], data['by'])
ClockOf(d) == [x \in DOMAIN d["bz"] |-> Atan2Deg(d["bz"][x], d["by"][x])]

CalcClock ==
    /\ pc = "clock"
    /\ data' = [name \in VarSet \cup {"clock"} |->
                  IF name = "clock" THEN ClockOf(data) ELSE data[name]]
    /\ pc' = "mask"
    /\ UNCHANGED <<lines, epoch, span, i, dtime, means, outcome>>
    /\ UNCHANGED vars1

(***************************************************************************)
(* precond2.py: get_precond, the mask and the means.                       *)
(***************************************************************************)
\* epoch - dt.timedelta(days=1): the span argument is not read
LowerBound(ep, sp) == ep - DayHours

InWindow(t, ep, sp) == t >= LowerBound(ep, sp) /\ t <= ep

\* comparing an array of integer zeros with a datetime raises TypeError as
\* soon as the array has an element
MaskExc(tm) == IF tm.arr /\ Len(tm.seq) > 0 THEN "TypeError" ELSE "none"

\* the positions of an nRec-long array that indexing with the mask selects:
\* a scalar True selects the whole array (as one row), a scalar False and an
\* empty mask select nothing
Selected(tm, ep, sp, nRec) ==
    IF tm.arr THEN {}
    ELSE IF InWindow(tm.val, ep, sp) THEN 1..nRec ELSE {}

GetMeans ==
    /\ pc = "mask"
    /\ IF MaskExc(dtime) = "none"
       THEN /\ means' = [name \in DOMAIN data |->
                           MeanOver(data[name], Selected(dtime, epoch, span, Len(lines)))]
            /\ pc' = "done"
            /\ outcome' = "ok"
       ELSE /\ pc' = "error"
            /\ outcome' = MaskExc(dtime)
            /\ UNCHANGED means
    /\ UNCHANGED <<lines, epoch, span, i, data, dtime>>
    /\ UNCHANGED vars1

Next2 == LoadLine \/ LoadReturn \/ CalcClock \/ GetMeans

Init == Init2 /\ Idle1

Spec == Init /\ [][Next2]_vars

(***************************************************************************)
(* precond1.py: the index scan over time and the means over the slice.     *)
(* time1 holds 24 * (doy + hour/24), so "epoch - 1.0" is epoch1 - 24.      *)
(***************************************************************************)
TimeSet1 == {4716, 4717, 4740, 4741, 4742}
EpochSet1 == {4741, 4742}
ValSet1 == {1, 2}

Init1 ==
    /\ \E n \in 1..MaxRec1 :
         /\ time1 \in [1..n -> TimeSet1]
         /\ colB \in [1..n -> ValSet1]
    /\ epoch1 \in EpochSet1
    /\ k = 0
    /\ iStart = -1
    /\ iStop = -1
    /\ pc1 = "scan"
    /\ mean1 = NaN
    /\ outcome1 = "none"

\* the start test without its "iStart==-1" guard
StartHitUnguarded(tnow, ep, iS) == tnow > ep - DayHours

\* "if tnow > epoch-1.0 and iStart==-1"
StartHit(tnow, ep, iS) == tnow > ep - DayHours /\ iS = -1

\* "if tnow >= epoch"
StopHit(tnow, ep) == tnow >= ep

\* one pass of the loop "for i, tnow in enumerate(time)"
ScanStep ==
    /\ pc1 = "scan" /\ k < Len(time1)
    /\ LET tnow == time1[k + 1] IN
       /\ iStart' = IF StartHit(tnow, epoch1, iStart) THEN k ELSE iStart
       /\ IF StopHit(tnow, epoch1)
          THEN iStop' = k /\ pc1' = "report" /\ k' = k
          ELSE iStop' = iStop /\ pc1' = pc1 /\ k' = k + 1
    /\ UNCHANGED <<time1, colB, epoch1, mean1, outcome1>>
    /\ UNCHANGED vars2

\* the loop runs out of records without a break
ScanExhaust ==
    /\ pc1 = "scan" /\ k = Len(time1)
    /\ pc1' = "report"
    /\ UNCHANGED <<time1, colB, epoch1, k, iStart, iStop, mean1, outcome1>>
    /\ UNCHANGED vars2

\* Python's a[lo:hi] on an array of n elements: the 0-based indices kept
SliceBound(x, n) == IF x < 0 THEN Max(x + n, 0) ELSE Min(x, n)
SliceIdx(lo, hi, n) == {x \in 0..(n - 1) : SliceBound(lo, n) <= x /\ x < SliceBound(hi, n)}

\* data[iStart:iStop,3].mean()
SliceMean(arr, lo, hi) ==
    MeanOver(arr, {x + 1 : x \in SliceIdx(lo, hi, Len(arr))})

Report ==
    /\ pc1 = "report"
    /\ mean1' = SliceMean(colB, iStart, iStop)
    /\ pc1' = "done"
    /\ outcome1' = "ok"
    /\ UNCHANGED <<time1, colB, epoch1, k, iStart, iStop>>
    /\ UNCHANGED vars2

Next1 == ScanStep \/ ScanExhaust \/ Report

InitScan == Init1 /\ Idle2

SpecScan == InitScan /\ [][Next1]_vars

(***************************************************************************)
(* What the file says, read by the documented column layout.               *)
(***************************************************************************)
AllWellFormed == \A x \in 1..Len(lines) : WellFormed(lines[x])

\* load_omni has returned its dictionary
Loaded == pc \in {"clock", "mask", "done"}

\* the records whose timestamp lies in [ep - hours, ep]
WindowOf(ep, hours) ==
    {x \in 1..Len(lines) : ep - hours <= StampOf(lines[x]) /\ StampOf(lines[x]) <= ep}

Covered(ep) ==
    /\ \E x \in 1..Len(lines) : StampOf(lines[x]) <= ep
    /\ \E x \in 1..Len(lines) : StampOf(lines[x]) >= ep

Sorted1 == \A a, b \in 1..Len(time1) : a <= b => time1[a] <= time1[b]

\* 0-based index of the first record whose time is >= t (-1 if none)
FirstAtLeast(t) ==
    IF \E x \in 1..Len(time1) : time1[x] >= t
    THEN (CHOOSE x \in 1..Len(time1) :
             time1[x] >= t /\ \A y \in 1..(x - 1) : time1[y] < t) - 1
    ELSE -1

(***************************************************************************)
(* The claims.                                                             *)
(***************************************************************************)

\* C1: get_precond with the default span returns, for exactly the keys b,
\* bx, by, bz, dens, v, pdyn, dst and clock, the arithmetic mean of that
\* variable of the loaded dataset over exactly the records whose timestamp
\* lies in [epoch - 24h, epoch]; stated for a time-ordered, well-formed file,
\* span = 24 and a window that holds at least one record.
C1_MeansOverWindow ==
    (pc = "done" /\ span = 24 /\ AllWellFormed /\ TimeOrdered(lines)
        /\ WindowOf(epoch, 24) # {})
    => /\ DOMAIN means = VarSet \cup {"clock"}
       /\ \A name \in DOMAIN means :
            IsMeanOf(means[name], data[name], WindowOf(epoch, 24))

\* C2: on a time-ordered time array in which some time reaches the epoch,
\* the scan of precond1 ends with iStart the first index whose time is
\* >= epoch - 24h, iStop the first index whose time is >= epoch, and the
\* averaged records are those at indices iStart..iStop, both included.
C2_ScanInclusive ==
    (pc1 = "done" /\ Sorted1 /\ \E x \in 1..Len(time1) : time1[x] >= epoch1)
    => /\ iStart = FirstAtLeast(epoch1 - DayHours)
       /\ iStop = FirstAtLeast(epoch1)
       /\ SliceIdx(iStart, iStop, Len(time1)) = iStart..iStop
       /\ IsMeanOf(mean1, colB, {x + 1 : x \in iStart..iStop})

\* C3: the span argument sets the lower bound of the window: the records
\* get_precond averages are exactly those with timestamp in
\* [epoch - span hours, epoch], for every span.
C3_SpanSetsWindow ==
    (pc = "done" /\ AllWellFormed /\ TimeOrdered(lines))
    => Selected(dtime, epoch, span, Len(lines)) = WindowOf(epoch, span)

\* C4: when the epoch lies outside the coverage of a time-ordered time array
\* (no time reaches the epoch, or the epoch precedes every time) the run of
\* precond1 ends in RangeError and reports no mean.
C4_RangeError ==
    (pc1 = "done" /\ Sorted1
        /\ (   (\A x \in 1..Len(time1) : time1[x] < epoch1)
            \/ (\A x \in 1..Len(time1) : time1[x] > epoch1)))
    => outcome1 = "RangeError" /\ mean1 = NaN

\* C5: when the epoch is within the coverage of a time-ordered, well-formed
\* file but the mask selects no record, get_precond (default span) ends in
\* EmptyWindowError and returns no result.
C5_EmptyWindowError ==
    (pc \in {"done", "error"} /\ AllWellFormed /\ TimeOrdered(lines)
        /\ span = 24 /\ Covered(epoch)
        /\ Selected(dtime, epoch, span, Len(lines)) = {})
    => outcome = "EmptyWindowError"

\* C6: for a file of N well-formed lines load_omni returns, under the k-th
\* of the names b, bx, by, bz, dens, v, pdyn, dst, N values in line order,
\* the value at position x being token 3+k of line x.
C6_ColumnsInOrder ==
    (pc = "clock" /\ AllWellFormed)
    => \A j \in 1..Len(varnames) :
          /\ Len(data[varnames[j]]) = Len(lines)
          /\ \A x \in 1..Len(lines) : data[varnames[j]][x] = lines[x][j + 3].v

\* C7: after load_omni has processed a file of N well-formed lines the time
\* field is a sequence of N timestamps, entry x being Jan 1 of line x's year
\* plus its day-of-year days plus its hour hours.
C7_TimeIsParallel ==
    (pc = "clock" /\ AllWellFormed)
    => /\ dtime.arr
       /\ Len(dtime.seq) = Len(lines)
       /\ \A x \in 1..Len(lines) : dtime.seq[x] = StampOf(lines[x])

\* C8: load_omni returns no dataset when some line of the file does not
\* consist of exactly 11 numeric tokens.
C8_MalformedRejected == Loaded => AllWellFormed

\* C9: once calc_clock has run, the clock sequence has one entry per record
\* and each entry is degrees(atan2(by, bz)) of that record's by and bz
\* (0 for north, 90 for by positive).
C9_ClockFromNorth ==
    (pc \in {"mask", "done"} /\ AllWellFormed)
    => /\ "clock" \in DOMAIN data
       /\ Len(data["clock"]) = Len(lines)
       /\ \A x \in 1..Len(lines) :
            data["clock"][x] = Atan2Deg(data["by"][x], data["bz"][x])

\* C10's parts: the state rule and the step rule
C10_StopState ==
    iStop # -1
    => /\ 0 <= iStart /\ iStart <= iStop /\ iStop < Len(time1)
       /\ (SliceIdx(iStart, iStop, Len(time1)) = {}) <=> (iStart = iStop)

C10_StepRule ==
    /\ iStart # -1 => iStart' = iStart
    /\ iStop # -1 => iStop' = iStop /\ iStart' = iStart /\ k' = k

\* C10: in the scan of precond1 over any time array, sorted or not: iStart,
\* once set, is never reassigned; once iStop is set neither index changes
\* and no further record is examined; and whenever iStop is set, iStart is
\* set too with 0 <= iStart <= iStop, so that the slice iStart:iStop is empty
\* exactly when iStart = iStop.
C10_ScanIndices == [] C10_StopState /\ [][C10_StepRule]_vars

\* C10's case: a time array that is out of order within the records the
\* scan examined, on which the scan set iStart, went on over later records,
\* then set iStop and stopped, and a mean was reported
C10_Witness ==
    /\ pc1 = "done"
    /\ \E a, b \in 1..(iStop + 1) : a < b /\ time1[a] > time1[b]
    /\ 0 < iStart /\ iStart < iStop
    /\ mean1 # NaN

====
